---- MODULE Spec2Model ----
(***************************************************************************)
(* Model of pylifemap's aggregations.py: aggregation of a DataFrame with   *)
(* taxonomy ids along the branches of the lifemap tree (aggregate_num,     *)
(* aggregate_count, aggregate_cat) and the helpers they call.              *)
(*                                                                         *)
(* A DataFrame is [names |-> set of column names, rows |-> sequence of     *)
(* rows], a row being a function from the column names to cell values.     *)
(* A call is recorded in `call`: its arguments and how it ended (the       *)
(* returned frame, or the exception that left it).  Every input is a       *)
(* DataFrame, so ensure_polars returns it as it is.                        *)
(***************************************************************************)
EXTENDS Integers, Sequences, FiniteSets, TLC

\* Largest number of rows of the input DataFrame.
MaxRows == 2

\* pl.Int32: the largest value of a signed 32-bit integer.
MaxInt32 == 2147483647

VARIABLES lmdata, tbl, call

vars == <<lmdata, tbl, call>>

-----------------------------------------------------------------------------
(* Cell values.                                                            *)
(*                                                                         *)
(* An integer identifier as the caller supplies it (Int64) is the record   *)
(* [hi, lo] standing for hi * 2^31 + lo with 0 <= lo <= MaxInt32, so that  *)
(* identifiers that do not fit in 32 bits can be written down.  After the  *)
(* cast to pl.Int32 an identifier is a plain integer.  A nullable Int32    *)
(* cell (the exploded pylifemap_ascend column, the result's taxid) is a    *)
(* sequence of length at most one: <<>> is null, <<n>> is n.               *)

I64(hi, lo) == [hi |-> hi, lo |-> lo]

Null == <<>>

NotNull(n) == <<n>>

\* The identifier fits pl.Int32: -2^31 <= hi * 2^31 + lo <= 2^31 - 1.
FitsInt32(v) == v.hi \in {-1, 0}

\* The value of an identifier that fits, as an Int32.
Int32Value(v) == IF v.hi = 0 THEN v.lo ELSE v.lo - MaxInt32 - 1

\* The Int64 that an Int32 value is (sign extension).
Int64Of(i) == IF i >= 0 THEN I64(0, i) ELSE I64(-1, i + MaxInt32 + 1)

\* The low 32 bits of an identifier read as a signed 32-bit integer:
\* (hi * 2^31 + lo) modulo 2^32, minus 2^32 when bit 31 is set.
Low32(v) == IF v.hi % 2 = 0 THEN v.lo ELSE v.lo - MaxInt32 - 1

\* The strict cast with overflow wrapping instead of failing.
CastInt32Wrap(v) == [status |-> "ok", value |-> Low32(v)]

\* Expr.cast(pl.Int32) on one integer cell: strict by default, so a value
\* out of range makes the cast fail instead of producing a value.
CastInt32(v) ==
    IF FitsInt32(v)
    THEN [status |-> "ok", value |-> Int32Value(v)]
    ELSE [status |-> "InvalidOperationError", value |-> 0]

-----------------------------------------------------------------------------
(* Inputs.                                                                 *)

\* Column names a DataFrame or an argument may use.
IdCols == {"taxid", "id"}

\* The schemas of the input DataFrames: with the identifier column under its
\* default name or another one, or without it.
Schemas == {{"taxid", "value"}, {"id", "value"}, {"taxid", "cat"},
            {"id", "cat"}, {"value"}}

\* Identifiers of the input rows: the nodes of the tree, one identifier the
\* ancestor mapping does not know (-1), one that does not fit in 32 bits
\* (2^32 + 3).
IdValues == {I64(0, 1), I64(0, 2), I64(0, 3), I64(0, 4), I64(-1, MaxInt32),
             I64(2, 3)}

NumValues == {2, 3}

CatValues == {"a", "b"}

\* The rows a DataFrame with the columns `names` can hold: an identifier in
\* an identifier column, a number in "value", a category in "cat".
RowsOf(names) ==
    {[n \in names |-> IF n \in IdCols THEN id
                      ELSE IF n = "value" THEN v ELSE c] :
        id \in IdValues, v \in NumValues, c \in CatValues}

\* LMDATA.select("taxid", "pylifemap_ascend"): per taxid, the list of its
\* ancestors from its parent up to the root.  Two trees over the taxids 1..4:
\* 1 -> {2, 3}, 2 -> {4}; and the chain 1 -> 2 -> 3 -> 4.
BranchTree == (1 :> <<>>) @@ (2 :> <<1>>) @@ (3 :> <<1>>) @@ (4 :> <<2, 1>>)

ChainTree == (1 :> <<>>) @@ (2 :> <<1>>) @@ (3 :> <<2, 1>>) @@ (4 :> <<3, 2, 1>>)

Trees == {BranchTree, ChainTree}

-----------------------------------------------------------------------------
(* Sequence helpers.                                                       *)

Range(s) == {s[i] : i \in DOMAIN s}

RECURSIVE Flatten(_)
Flatten(ss) == IF ss = <<>> THEN <<>> ELSE Head(ss) \o Flatten(Tail(ss))

RECURSIVE SumSeq(_)
SumSeq(s) == IF s = <<>> THEN 0 ELSE Head(s) + SumSeq(Tail(s))

-----------------------------------------------------------------------------
(* Input normalization.                                                    *)

\* ensure_column_exists: TRUE when it returns, FALSE when it raises the
\* ValueError "<column> is not a column of the DataFrame."
ensure_column_exists(d, column) == column \in d.names

\* ensure_int32: d.with_columns(pl.col(taxid_col).cast(pl.Int32)).
\* pl.col of a missing column raises ColumnNotFoundError; the strict cast
\* raises when one value is out of range; otherwise the column is replaced
\* by its Int32 values and every other column is kept.
ensure_int32(d, taxid_col) ==
    IF taxid_col \notin d.names
    THEN [status |-> "ColumnNotFoundError", d |-> d]
    ELSE IF \E i \in DOMAIN d.rows : CastInt32(d.rows[i][taxid_col]).status # "ok"
    THEN [status |-> "InvalidOperationError", d |-> d]
    ELSE [status |-> "ok",
          d |-> [names |-> d.names,
                 rows |-> [i \in DOMAIN d.rows |->
                            [n \in d.names |->
                               IF n = taxid_col
                               THEN CastInt32(d.rows[i][n]).value
                               ELSE d.rows[i][n]]]]]

-----------------------------------------------------------------------------
(* The record of a call.                                                   *)

NoCall ==
    [op |-> "none", column |-> "-", fn |-> "-", taxid_col |-> "-",
     keep_leaves |-> FALSE, status |-> "none", msg |-> "-", res |-> <<>>]

\* A call that returned `res`.
Returned(c, res) == [c EXCEPT !.status = "ok", !.res = res]

\* A call left by the exception `exc`, `msg` being the column its message names.
Raised(c, exc, msg) == [c EXCEPT !.status = exc, !.msg = msg]

-----------------------------------------------------------------------------
(* Building blocks of the pipelines.                                       *)

\* The order DataFrame.sort gives a nullable Int32 column: nulls first
\* (nulls_last defaults to False), then ascending.
TaxidLess(a, b) ==
    \/ a = Null /\ b # Null
    \/ a # Null /\ b # Null /\ a[1] < b[1]

\* d.select(pl.col(taxid_col).alias("taxid"), pl.col(column)): the rows, in
\* order, reduced to the (cast) identifier and the chosen column.
select_taxid_column(d, taxid_col, column) ==
    [i \in DOMAIN d.rows |->
        [taxid |-> d.rows[i][taxid_col], value |-> d.rows[i][column]]]

\* d.select(pl.col(taxid_col).alias("taxid")): there is no other column;
\* `value` only gives the rows the shape the shared steps take.
select_taxid(d, taxid_col) ==
    [i \in DOMAIN d.rows |-> [taxid |-> d.rows[i][taxid_col], value |-> 1]]

\* One row of d.join(LMDATA..., on="taxid", how="left").explode(...): a row
\* per ancestor of the row's taxid; a taxid the mapping does not hold joins
\* to a null list, and a null or empty list explodes to ONE row whose
\* pylifemap_ascend is null.
explode_row(r, lm) ==
    LET ascend == IF r.taxid \in DOMAIN lm THEN lm[r.taxid] ELSE <<>>
    IN  IF ascend = <<>>
        THEN <<[taxid |-> r.taxid, value |-> r.value, pylifemap_ascend |-> Null]>>
        ELSE [k \in DOMAIN ascend |->
                [taxid |-> r.taxid, value |-> r.value,
                 pylifemap_ascend |-> NotNull(ascend[k])]]

\* d.join(LMDATA.select("taxid", "pylifemap_ascend"), on="taxid",
\*        how="left").explode("pylifemap_ascend")
join_explode(rows, lm) ==
    Flatten([i \in DOMAIN rows |-> explode_row(rows[i], lm)])

\* d.with_columns(pl.col("taxid").alias("pylifemap_ascend"))
with_self_ascend(rows) ==
    [i \in DOMAIN rows |->
        [taxid |-> rows[i].taxid, value |-> rows[i].value,
         pylifemap_ascend |-> NotNull(rows[i].taxid)]]

\* The values of the rows of one group, in row order.
RECURSIVE group_values(_, _)
group_values(rows, key) ==
    IF rows = <<>> THEN <<>>
    ELSE (IF Head(rows).pylifemap_ascend = key THEN <<Head(rows).value>> ELSE <<>>)
         \o group_values(Tail(rows), key)

\* The keys of group_by("pylifemap_ascend"): null is a key like any other.
group_keys(rows) == {rows[i].pylifemap_ascend : i \in DOMAIN rows}

RECURSIVE SortInts(_)
SortInts(s) ==
    IF s = <<>> THEN <<>>
    ELSE LET rest == SortInts(Tail(s))
             below == SelectSeq(rest, LAMBDA x : x <= Head(s))
             above == SelectSeq(rest, LAMBDA x : x > Head(s))
         IN  below \o <<Head(s)>> \o above

\* fn_dict: the reductions by name.  mean and median are fractions
\* <<numerator, denominator>>.
fn_dict == {"sum", "mean", "min", "max", "median"}

agg_fn(fn, vs) ==
    CASE fn = "sum" -> SumSeq(vs)
      [] fn = "min" -> CHOOSE m \in Range(vs) : \A x \in Range(vs) : m <= x
      [] fn = "max" -> CHOOSE m \in Range(vs) : \A x \in Range(vs) : m >= x
      [] fn = "mean" -> <<SumSeq(vs), Len(vs)>>
      [] fn = "median" ->
            LET s == SortInts(vs)
            IN  <<s[(Len(s) + 1) \div 2] + s[(Len(s) + 2) \div 2], 2>>

\* A frame sorted the other way round.
RECURSIVE sort_taxid_descending(_)
sort_taxid_descending(groups) ==
    IF groups = {} THEN <<>>
    ELSE LET last == CHOOSE g \in groups :
                        \A h \in groups : ~TaxidLess(g.taxid, h.taxid)
         IN  <<last>> \o sort_taxid_descending(groups \ {last})

\* res.sort("taxid") of the grouped frame.  group_by leaves the order of the
\* groups open, so the grouped frame is a set of rows, one per key.
RECURSIVE sort_taxid(_)
sort_taxid(groups) ==
    IF groups = {} THEN <<>>
    ELSE LET first == CHOOSE g \in groups :
                         \A h \in groups : ~TaxidLess(h.taxid, g.taxid)
         IN  <<first>> \o sort_taxid(groups \ {first})

-----------------------------------------------------------------------------
(* aggregate_num and aggregate_count.                                      *)

\* Lines 146-162: the frame aggregate_num returns once its checks passed.
aggregate_num_frame(d, column, fn, taxid_col, lm) ==
    LET sel == select_taxid_column(d, taxid_col, column)
        res == join_explode(sel, lm) \o with_self_ascend(sel)
        grouped == {[taxid |-> k, value |-> agg_fn(fn, group_values(res, k))] :
                       k \in group_keys(res)}
    IN  sort_taxid(grouped)

\* aggregate_num without the check of lines 126-131.
aggregate_num_taxid_unchecked(c, d, lm) ==
    IF ~ensure_column_exists(d, c.column)
    THEN Raised(c, "ValueError", c.column)
    ELSE IF ~ensure_column_exists(d, c.taxid_col)
    THEN Raised(c, "ValueError", c.taxid_col)
    ELSE LET cast == ensure_int32(d, c.taxid_col)
         IN  IF cast.status # "ok"
             THEN Raised(c, cast.status, c.taxid_col)
             ELSE IF c.fn \notin fn_dict
             THEN Raised(c, "ValueError", "-")
             ELSE Returned(c, aggregate_num_frame(cast.d, c.column, c.fn,
                                                  c.taxid_col, lm))

\* aggregate_num(d, column, fn=fn, taxid_col=taxid_col), c being the record
\* of the call's arguments.
aggregate_num(c, d, lm) ==
    IF ~ensure_column_exists(d, c.column)
    THEN Raised(c, "ValueError", c.column)
    ELSE IF ~ensure_column_exists(d, c.taxid_col)
    THEN Raised(c, "ValueError", c.taxid_col)
    ELSE LET cast == ensure_int32(d, c.taxid_col)
         IN  IF cast.status # "ok"
             THEN Raised(c, cast.status, c.taxid_col)
             ELSE IF c.column = "taxid"
             THEN Raised(c, "ValueError", "-")
             ELSE IF c.fn \notin fn_dict
             THEN Raised(c, "ValueError", "-")
             ELSE Returned(c, aggregate_num_frame(cast.d, c.column, c.fn,
                                                  c.taxid_col, lm))

\* Lines 197-213: the frame aggregate_count returns once its checks passed.
aggregate_count_frame(d, taxid_col, lm) ==
    LET sel == select_taxid(d, taxid_col)
        res == join_explode(sel, lm) \o with_self_ascend(sel)
        grouped == {[taxid |-> k, n |-> Len(group_values(res, k))] :
                       k \in group_keys(res)}
    IN  sort_taxid(grouped)

\* aggregate_count(d, taxid_col=taxid_col)
aggregate_count(c, d, lm) ==
    IF ~ensure_column_exists(d, c.taxid_col)
    THEN Raised(c, "ValueError", c.taxid_col)
    ELSE LET cast == ensure_int32(d, c.taxid_col)
         IN  IF cast.status # "ok"
             THEN Raised(c, cast.status, c.taxid_col)
             ELSE Returned(c, aggregate_count_frame(cast.d, c.taxid_col, lm))

-----------------------------------------------------------------------------
(* aggregate_cat and preprocess_counts.                                    *)

\* The number of rows of the group (key, level) of
\* group_by(["pylifemap_ascend", column]).count()
RECURSIVE group_count(_, _, _)
group_count(rows, key, level) ==
    IF rows = <<>> THEN 0
    ELSE (IF Head(rows).pylifemap_ascend = key /\ Head(rows).value = level
          THEN 1 ELSE 0)
         + group_count(Tail(rows), key, level)

\* levels.to_list(): the distinct values of the column as a list.  unique()
\* leaves their order open; the list is one enumeration of them.
levels_to_list(levels) ==
    CHOOSE l \in [1..Cardinality(levels) -> levels] : Range(l) = levels

\* pl.struct(pl.col(columns)).struct.json_encode() of one pivoted row: the
\* JSON object {"<level>": <count>, ...} as the list of its members, one per
\* level column, the counts being those of the pivot (0 where the pivot
\* filled a null).
json_encode(rows, key, columns) ==
    [i \in DOMAIN columns |-> <<columns[i], group_count(rows, key, columns[i])>>]

\* Lines 228-236: the aggregated rows, one per key of the pivot's index.
\* Neither group_by nor pivot is followed by a sort: the rows are a set.
preprocess_counts(rows, columns) ==
    {[taxid |-> k, value |-> json_encode(rows, k, columns),
      pylifemap_count_type |-> "count"] : k \in group_keys(rows)}

\* Lines 238-240: the input rows tagged "leaf".
leaf_rows(sel) ==
    [i \in DOMAIN sel |->
        [taxid |-> NotNull(sel[i].taxid), value |-> sel[i].value,
         pylifemap_count_type |-> "leaf"]]

\* aggregate_cat(d, column, keep_leaves=keep_leaves, taxid_col=taxid_col):
\* the set of ways the call can end.  There is no ensure_column_exists; a
\* missing column surfaces as the engine's ColumnNotFoundError.  After line
\* 226 the frame has the columns "taxid" and `column` only, which is what
\* d.select([taxid_col, column]) of line 238 is run on.  On a frame without
\* rows there is no level column for pl.struct to take, which the engine
\* either accepts (no aggregated row) or rejects.
aggregate_cat(c, d, lm) ==
    LET cast == ensure_int32(d, c.taxid_col)
    IN  IF cast.status # "ok"
        THEN {Raised(c, cast.status, c.taxid_col)}
        ELSE IF c.column \notin d.names
        THEN {Raised(c, "ColumnNotFoundError", c.column)}
        ELSE
          LET sel == select_taxid_column(cast.d, c.taxid_col, c.column)
              levels == {sel[i].value : i \in DOMAIN sel}
              res == preprocess_counts(join_explode(sel, lm),
                                       levels_to_list(levels))
              done == IF ~c.keep_leaves
                      THEN Returned(c, [counts |-> res, leaves |-> <<>>])
                      ELSE IF c.taxid_col \notin {"taxid", c.column}
                      THEN Raised(c, "ColumnNotFoundError", c.taxid_col)
                      ELSE Returned(c, [counts |-> res, leaves |-> leaf_rows(sel)])
          IN  IF levels = {}
              THEN {done, Raised(c, "ComputeError", "-")}
              ELSE {done}

-----------------------------------------------------------------------------
(* State machine.                                                          *)

Init ==
    /\ lmdata \in Trees
    /\ tbl \in {[names |-> s, rows |-> <<>>] : s \in Schemas}
    /\ call = NoCall

\* The caller adds a row to the DataFrame it will pass.
AppendRow ==
    /\ call = NoCall
    /\ Len(tbl.rows) < MaxRows
    /\ \E r \in RowsOf(tbl.names) :
          tbl' = [tbl EXCEPT !.rows = Append(@, r)]
    /\ UNCHANGED <<lmdata, call>>

\* The caller is done with the outcome of its last call.
DropResult ==
    /\ call # NoCall
    /\ call' = NoCall
    /\ UNCHANGED <<lmdata, tbl>>

CallEnsureInt32 ==
    /\ call = NoCall
    /\ \E taxid_col \in IdCols :
          LET c == [NoCall EXCEPT !.op = "ensure_int32", !.taxid_col = taxid_col]
              out == ensure_int32(tbl, taxid_col)
          IN  call' = IF out.status = "ok"
                      THEN Returned(c, out.d)
                      ELSE Raised(c, out.status, taxid_col)
    /\ UNCHANGED <<lmdata, tbl>>

\* Argument values of the calls.
NumColumns == {"value", "taxid"}

FnValues == fn_dict \cup {"bogus"}

CallAggregateNum ==
    /\ call = NoCall
    /\ \E column \in NumColumns, fn \in FnValues, taxid_col \in IdCols :
          call' = aggregate_num([NoCall EXCEPT !.op = "aggregate_num",
                                               !.column = column, !.fn = fn,
                                               !.taxid_col = taxid_col],
                                tbl, lmdata)
    /\ UNCHANGED <<lmdata, tbl>>

CallAggregateCount ==
    /\ call = NoCall
    /\ \E taxid_col \in IdCols :
          call' = aggregate_count([NoCall EXCEPT !.op = "aggregate_count",
                                                 !.taxid_col = taxid_col],
                                  tbl, lmdata)
    /\ UNCHANGED <<lmdata, tbl>>

CallAggregateCat ==
    /\ call = NoCall
    /\ \E keep_leaves \in BOOLEAN, taxid_col \in IdCols :
          call' \in aggregate_cat([NoCall EXCEPT !.op = "aggregate_cat",
                                                !.column = "cat",
                                                !.keep_leaves = keep_leaves,
                                                !.taxid_col = taxid_col],
                                  tbl, lmdata)
    /\ UNCHANGED <<lmdata, tbl>>

Next ==
    \/ AppendRow
    \/ CallAggregateCat
    \/ CallAggregateCount
    \/ CallAggregateNum
    \/ CallEnsureInt32
    \/ DropResult

Spec == Init /\ [][Next]_vars

-----------------------------------------------------------------------------
(* What the properties are stated in: the input of the recorded call.      *)

Aggregations == {"aggregate_num", "aggregate_count", "aggregate_cat"}

\* The rows of the input frame.
InputRows == DOMAIN tbl.rows

\* Every identifier of the input's identifier column fits in 32 bits.
AllFit(taxid_col) ==
    \A i \in InputRows : FitsInt32(tbl.rows[i][taxid_col])

\* The taxid of input row i (of a call whose identifiers all fit).
InputTaxid(i) == Int32Value(tbl.rows[i][call.taxid_col])

\* The ancestors the mapping gives a taxid; none for a taxid it does not hold.
AncestorsOf(t) == IF t \in DOMAIN lmdata THEN Range(lmdata[t]) ELSE {}

\* Input row i counts for the result taxid k: k is the row's taxid or one of
\* its ancestors.  No input row has the taxid null or null as an ancestor.
CountsFor(i, k) ==
    /\ k # Null
    /\ k[1] = InputTaxid(i) \/ k[1] \in AncestorsOf(InputTaxid(i))

\* The taxids of the input and all their ancestors.
InputAndAncestors ==
    UNION {{InputTaxid(i)} \cup AncestorsOf(InputTaxid(i)) : i \in InputRows}

RECURSIVE SumColumn(_, _)
SumColumn(rows, column) ==
    IF rows = {} THEN 0
    ELSE LET i == CHOOSE x \in rows : TRUE
         IN  tbl.rows[i][column] + SumColumn(rows \ {i}, column)

ReturnedFrom(op) == call.op = op /\ call.status = "ok"

-----------------------------------------------------------------------------
(* Properties.                                                             *)

\* C1: aggregate_num with fn="sum": each row of the result has a value equal
\* to the sum of the chosen column over exactly the input rows whose taxid is
\* the result row's taxid or has it among its ancestors.
C1_SumOverSubtree ==
    (ReturnedFrom("aggregate_num") /\ call.fn = "sum") =>
        \A j \in DOMAIN call.res :
            call.res[j].value =
                SumColumn({i \in InputRows : CountsFor(i, call.res[j].taxid)},
                          call.column)

\* C2: aggregate_count: each row of the result has a count equal to the
\* number of input rows whose taxid is the result row's taxid or has it
\* among its ancestors.
C2_CountOverSubtree ==
    ReturnedFrom("aggregate_count") =>
        \A j \in DOMAIN call.res :
            call.res[j].n =
                Cardinality({i \in InputRows : CountsFor(i, call.res[j].taxid)})

\* The taxids of the rows a call returned.
ResultTaxids ==
    IF call.op = "aggregate_cat"
    THEN {r.taxid : r \in call.res.counts}
         \cup {call.res.leaves[j].taxid : j \in DOMAIN call.res.leaves}
    ELSE {call.res[j].taxid : j \in DOMAIN call.res}

\* C3: for aggregate_num, aggregate_count and aggregate_cat (keep_leaves False
\* or True), every taxid of an input row is the taxid of at least one row of
\* the result.
C3_InputTaxidsInResult ==
    (call.op \in Aggregations /\ call.status = "ok") =>
        \A i \in InputRows : NotNull(InputTaxid(i)) \in ResultTaxids

\* C4: for aggregate_num and aggregate_count the taxids of the result rows
\* are exactly the input taxids and their ancestors in the mapping: no null
\* and no other taxid, and no row at all for an empty input.
C4_ResultTaxidsExact ==
    (call.op \in {"aggregate_num", "aggregate_count"} /\ call.status = "ok") =>
        ResultTaxids = {NotNull(t) : t \in InputAndAncestors}

\* C5: aggregate_cat: in every "count" row, with taxid t, the encoded
\* distribution has for every level L of the input an entry whose count is
\* the number of input rows of category L whose taxid is t or has t among
\* its ancestors.
C5_DistributionOverSubtree ==
    ReturnedFrom("aggregate_cat") =>
        \A r \in call.res.counts :
            \A L \in {tbl.rows[i][call.column] : i \in InputRows} :
                \E m \in DOMAIN r.value :
                    /\ r.value[m][1] = L
                    /\ r.value[m][2] =
                          Cardinality({i \in InputRows :
                                          /\ tbl.rows[i][call.column] = L
                                          /\ CountsFor(i, r.taxid)})

\* C6: aggregate_cat with keep_leaves=True on a non-empty input, whatever the
\* name of the identifier column: the call returns at least one "count" row
\* and one "leaf" row per input row, carrying its taxid and its category.
C6_LeavesKept ==
    ( /\ call.op = "aggregate_cat"
      /\ call.keep_leaves
      /\ {call.taxid_col, call.column} \subseteq tbl.names
      /\ InputRows # {}
      /\ AllFit(call.taxid_col) ) =>
        /\ call.status = "ok"
        /\ call.res.counts # {}
        /\ DOMAIN call.res.leaves = InputRows
        /\ \A i \in InputRows :
              /\ call.res.leaves[i].pylifemap_count_type = "leaf"
              /\ call.res.leaves[i].taxid = NotNull(InputTaxid(i))
              /\ call.res.leaves[i].value = tbl.rows[i][call.column]

\* C7: a call of aggregate_num, aggregate_count or aggregate_cat on a frame
\* without the column taxid_col ends in a ValueError naming that column.
C7_MissingTaxidColValueError ==
    (call.op \in Aggregations /\ call.taxid_col \notin tbl.names) =>
        /\ call.status = "ValueError"
        /\ call.msg = call.taxid_col

\* The arguments aggregate_num rejects.
BadNumArguments ==
    call.op = "aggregate_num" /\ (call.column = "taxid" \/ call.fn \notin fn_dict)

\* C8 as stated: aggregate_num ends in a ValueError whenever column is
\* "taxid" or fn is not allowed, whatever taxid_col and the input frame.
C8_AlwaysValueError ==
    BadNumArguments => call.status = "ValueError"

\* C8 as amended: with such arguments aggregate_num returns no result; it
\* ends in a ValueError unless both named columns exist and an identifier
\* does not fit in 32 bits, where the cast of ensure_int32 fails first.
C8_NoResultOnBadArguments ==
    BadNumArguments =>
        /\ call.res = <<>>
        /\ IF /\ {call.column, call.taxid_col} \subseteq tbl.names
              /\ ~AllFit(call.taxid_col)
           THEN call.status = "InvalidOperationError"
           ELSE call.status = "ValueError"

\* C8 witness: both rejected arguments at once, on a frame with rows, past
\* the column checks and the cast.
C8_Witness ==
    /\ BadNumArguments
    /\ call.column = "taxid" /\ call.fn \notin fn_dict
    /\ call.taxid_col \in tbl.names
    /\ InputRows # {}
    /\ call.status = "ValueError"

\* C9: the result of aggregate_num and of aggregate_count has one row per
\* taxid, in strictly ascending order of taxid (in the order of sort, which
\* puts a null first), whatever the order and the repetitions of the input.
C9_SortedOneRowPerTaxid ==
    (call.op \in {"aggregate_num", "aggregate_count"} /\ call.status = "ok") =>
        \A i, j \in DOMAIN call.res :
            i < j => TaxidLess(call.res[i].taxid, call.res[j].taxid)

\* C9 witness: a result of several rows from an input that repeats a taxid,
\* or lists a taxid before one of its ancestors.
C9_Witness ==
    /\ call.op \in {"aggregate_num", "aggregate_count"}
    /\ call.status = "ok"
    /\ Len(call.res) >= 3
    /\ \E i, j \in InputRows :
          /\ i < j
          /\ \/ InputTaxid(i) = InputTaxid(j)
             \/ InputTaxid(j) \in AncestorsOf(InputTaxid(i))

\* C10 as stated: ensure_int32 never fails on an integer identifier; it
\* returns the frame with each identifier reduced to its low 32 bits, which
\* leaves an identifier that fits unchanged, and every other column as it was.
C10_SilentTruncation ==
    (call.op = "ensure_int32" /\ call.taxid_col \in tbl.names) =>
        /\ call.status = "ok"
        /\ call.res.names = tbl.names
        /\ DOMAIN call.res.rows = InputRows
        /\ \A i \in InputRows, n \in tbl.names :
              IF n = call.taxid_col
              THEN call.res.rows[i][n] = Low32(tbl.rows[i][n])
              ELSE call.res.rows[i][n] = tbl.rows[i][n]

\* C10 as amended: ensure_int32 fails, returning no frame, when an integer
\* identifier does not fit in 32 bits; when all fit it returns the frame with
\* every identifier and every other column unchanged.
C10_StrictCast ==
    (call.op = "ensure_int32" /\ call.taxid_col \in tbl.names) =>
        IF AllFit(call.taxid_col)
        THEN /\ call.status = "ok"
             /\ call.res.names = tbl.names
             /\ DOMAIN call.res.rows = InputRows
             /\ \A i \in InputRows, n \in tbl.names :
                   IF n = call.taxid_col
                   THEN Int64Of(call.res.rows[i][n]) = tbl.rows[i][n]
                   ELSE call.res.rows[i][n] = tbl.rows[i][n]
        ELSE /\ call.status = "InvalidOperationError"
             /\ call.res = <<>>

\* C10 witness: ensure_int32 has run on a frame holding an identifier that
\* fits and one that does not.
C10_Witness ==
    /\ call.op = "ensure_int32"
    /\ call.taxid_col \in tbl.names
    /\ call.status # "none"
    /\ \E i, j \in InputRows :
          /\ FitsInt32(tbl.rows[i][call.taxid_col])
          /\ ~FitsInt32(tbl.rows[j][call.taxid_col])

====
